---- MODULE Spec2Model ----
(***************************************************************************)
(* Pivot-Table-Creator: the status ranker, the aggregators, the baseline   *)
(* target calculator (src/src/xlsxWorker.js, src/src/main.js) and the      *)
(* request coordinator processIfReady (src/src/main.js).                   *)
(*                                                                         *)
(* A JavaScript string is modelled as the sequence of its characters, each *)
(* character a one-character TLA+ string, so that trim, whitespace         *)
(* collapsing, lower-casing and localeCompare are computed, not assumed.   *)
(***************************************************************************)
EXTENDS Integers, Sequences, FiniteSets, TLC

----------------------------------------------------------------------------
(* Bounds of the model                                                     *)

MaxStatuses == 3
MaxRows == 3
MaxRequests == 2
MaxExports == 1
MaxCount == 100

----------------------------------------------------------------------------
(* Characters                                                              *)

UpperCase == <<"A","B","C","D","E","F","G","H","I","J","K","L","M",
               "N","O","P","Q","R","S","T","U","V","W","X","Y","Z">>
LowerCase == <<"a","b","c","d","e","f","g","h","i","j","k","l","m",
               "n","o","p","q","r","s","t","u","v","w","x","y","z">>

\* The characters \s matches and trim() strips, among those of the model.
IsSpace(c) == c \in {" ", "\t"}

IsUpper(c) == \E i \in 1..26 : UpperCase[i] = c

ToLowerChar(c) ==
  IF IsUpper(c) THEN LowerCase[CHOOSE i \in 1..26 : UpperCase[i] = c] ELSE c

\* Primary collation order of String.prototype.localeCompare (default
\* collator): white space, then punctuation, then letters; letters of
\* either case share a primary weight.
CollationOrder == <<"\t", " ", "-", "(", ")">> \o LowerCase

PrimaryWeight(c) ==
  CHOOSE i \in 1..Len(CollationOrder) : CollationOrder[i] = ToLowerChar(c)

Range(s) == { s[i] : i \in 1..Len(s) }

----------------------------------------------------------------------------
(* String functions                                                        *)

RECURSIVE TrimStart(_)
TrimStart(s) ==
  IF s # <<>> /\ IsSpace(Head(s)) THEN TrimStart(Tail(s)) ELSE s

RECURSIVE TrimEnd(_)
TrimEnd(s) ==
  IF s # <<>> /\ IsSpace(s[Len(s)]) THEN TrimEnd(SubSeq(s, 1, Len(s) - 1)) ELSE s

\* String.prototype.trim
Trim(s) == TrimEnd(TrimStart(s))

\* .replace(/\s+/g, ' '): every maximal run of white space becomes one space.
RECURSIVE CollapseSpaces(_)
CollapseSpaces(s) ==
  IF s = <<>> THEN <<>>
  ELSE IF IsSpace(Head(s))
       THEN <<" ">> \o CollapseSpaces(TrimStart(s))
       ELSE <<Head(s)>> \o CollapseSpaces(Tail(s))

\* String.prototype.toLowerCase
ToLowerCase(s) == [i \in 1..Len(s) |-> ToLowerChar(s[i])]

normalizeHeader(v) == ToLowerCase(CollapseSpaces(Trim(v)))

Blank == <<"(","b","l","a","n","k",")">>

normalizeCell(v) == IF Len(Trim(v)) > 0 THEN Trim(v) ELSE Blank

\* Lexicographic comparison of two sequences of integers: -1, 0 or 1.
RECURSIVE CompareWeights(_, _)
CompareWeights(a, b) ==
  IF a = <<>> /\ b = <<>> THEN 0
  ELSE IF a = <<>> THEN -1
  ELSE IF b = <<>> THEN 1
  ELSE IF Head(a) < Head(b) THEN -1
  ELSE IF Head(a) > Head(b) THEN 1
  ELSE CompareWeights(Tail(a), Tail(b))

\* a.localeCompare(b): primary weights decide; on a primary tie the first
\* case difference decides, lower case before upper case.
localeCompare(a, b) ==
  LET pa == [i \in 1..Len(a) |-> PrimaryWeight(a[i])]
      pb == [i \in 1..Len(b) |-> PrimaryWeight(b[i])]
      ta == [i \in 1..Len(a) |-> IF IsUpper(a[i]) THEN 1 ELSE 0]
      tb == [i \in 1..Len(b) |-> IF IsUpper(b[i]) THEN 1 ELSE 0]
      p  == CompareWeights(pa, pb)
  IN  IF p # 0 THEN p ELSE CompareWeights(ta, tb)

----------------------------------------------------------------------------
(* Array helpers                                                           *)

\* Array.from(new Set(xs)): the distinct elements, in order of first
\* occurrence; elements are compared as literal strings.
RECURSIVE Unique(_)
Unique(xs) ==
  IF xs = <<>> THEN <<>>
  ELSE LET init == Unique(SubSeq(xs, 1, Len(xs) - 1))
           x    == xs[Len(xs)]
       IN  IF x \in Range(init) THEN init ELSE Append(init, x)

\* One insertion of Array.prototype.sort, a stable sort: x goes after the
\* last element of s that does not compare greater than x; notGreater is
\* the set of the indices of those elements.
InsertAfterLast(s, x, notGreater) ==
  LET k == IF notGreater = {} THEN 0
           ELSE CHOOSE j \in notGreater : \A m \in notGreater : m <= j
  IN  SubSeq(s, 1, k) \o <<x>> \o SubSeq(s, k + 1, Len(s))

----------------------------------------------------------------------------
(* Status ranker                                                           *)

STATUS_PRIORITY ==
  << <<"D","r","a","f","t">>,
     <<"S","u","b","m","i","t","t","e","d">>,
     <<"A","p","p","r","o","v","e","d">>,
     <<"R","e","j","e","c","t","e","d">>,
     <<"R","e","t","u","r","n","e","d">>,
     <<"I","n"," ","R","e","v","i","e","w">>,
     <<"I","n","-","R","e","v","i","e","w">>,
     <<"R","e","s","u","b","m","i","t","t","e","d">>,
     <<"C","a","n","c","e","l","l","e","d">> >>

Unranked == 9999

\* prioIndex: STATUS_PRIORITY.forEach((s, i) => prioIndex.set(normalizeHeader(s), i))
prioKeys == [i \in 1..Len(STATUS_PRIORITY) |-> normalizeHeader(STATUS_PRIORITY[i])]

\* Variant of prioIndex that looks the literal status up, not its key.
prioIndex_Literal(s) ==
  LET hits == { i \in 1..Len(STATUS_PRIORITY) : STATUS_PRIORITY[i] = s }
  IN  IF hits = {} THEN Unranked
      ELSE (CHOOSE i \in hits : \A j \in hits : j <= i) - 1

\* prioIndex.has(n) ? prioIndex.get(n) : 9999, indices counted from 0.  A
\* later entry of the list with the same key would overwrite an earlier one.
prioIndex(s) ==
  LET n    == normalizeHeader(s)
      hits == { i \in 1..Len(prioKeys) : prioKeys[i] = n }
  IN  IF hits = {} THEN Unranked
      ELSE (CHOOSE i \in hits : \A j \in hits : j <= i) - 1

\* Variant of compareStatuses without the alphabetical tie-break.
compareStatuses_NoTieBreak(a, b) ==
  LET ai == prioIndex(a)
      bi == prioIndex(b)
  IN  ai - bi

compareStatuses(a, b) ==
  LET ai == prioIndex(a)
      bi == prioIndex(b)
  IN  IF ai # bi THEN ai - bi ELSE localeCompare(a, b)

sortStatuses(statuses) ==
  LET unique == Unique(statuses)
      F[i \in 0..Len(unique)] ==
        IF i = 0 THEN <<>>
        ELSE LET sorted == F[i - 1]
             IN  InsertAfterLast(sorted, unique[i],
                   { j \in 1..Len(sorted) : compareStatuses(sorted[j], unique[i]) <= 0 })
  IN  F[Len(unique)]

----------------------------------------------------------------------------
(* Row normalizer                                                          *)

\* rows.map(...) of readRowsFromSheet: a raw row holds the cells under the
\* five resolved columns.
readRow(r) ==
  [ ou0            |-> normalizeCell(r.ou0),
    ou1            |-> normalizeCell(r.ou1),
    ou2            |-> normalizeCell(r.ou2),
    applicationKey |-> Trim(r.applicationKey),
    status         |-> normalizeCell(r.status) ]

readRows(raw) == [i \in 1..Len(raw) |-> readRow(raw[i])]

----------------------------------------------------------------------------
(* Aggregate records                                                       *)

\* Variant of newAggRecord that starts without entries.
newAggRecord_NoEntries(statusList) ==
  [ byStatus |-> [s \in {} |-> 0], total |-> 0 ]

\* byStatus is a function from status to count; its DOMAIN is the key set
\* of the object (worker) or Map (main thread).
newAggRecord(statusList) ==
  [ byStatus |-> [s \in Range(statusList) |-> 0], total |-> 0 ]

\* Variant of addToAggRecord that counts a status only when the record
\* already has an entry for it.
addToAggRecord_KnownOnly(agg, status) ==
  [ total    |-> agg.total + 1,
    byStatus |-> [s \in DOMAIN agg.byStatus |->
                    agg.byStatus[s] + (IF s = status THEN 1 ELSE 0)] ]

\* agg.total += 1; agg.byStatus[status] = (agg.byStatus[status] ?? 0) + 1
addToAggRecord(agg, status) ==
  [ total    |-> agg.total + 1,
    byStatus |-> [s \in (DOMAIN agg.byStatus) \cup {status} |->
                    (IF s \in DOMAIN agg.byStatus THEN agg.byStatus[s] ELSE 0)
                    + (IF s = status THEN 1 ELSE 0)] ]

Draft == <<"D","r","a","f","t">>
Submitted == <<"S","u","b","m","i","t","t","e","d">>

\* Variant of HasKey that keeps every row.
HasKey_Always(r) == Len(r.applicationKey) >= 0

HasKey(r) == Len(r.applicationKey) > 0

\* Index of the entry with key k in a Map kept as a sequence in insertion
\* order; 0 when the Map has no such key.
IndexOfKey(entries, k) ==
  IF \E i \in 1..Len(entries) : entries[i].key = k
  THEN CHOOSE i \in 1..Len(entries) : entries[i].key = k
  ELSE 0

----------------------------------------------------------------------------
(* Flat aggregator of the worker                                           *)

\* Variant of keepStatus that compares the literal status with 'Draft'.
keepStatus_Literal(s) == s # Draft

\* .filter((s) => normalizeHeader(s) !== normalizeHeader('Draft'))
keepStatus(s) == normalizeHeader(s) # normalizeHeader(Draft)

\* Array.from(ou0Map.values()).sort((a, b) => a.key.localeCompare(b.key))
sortByKey(entries) ==
  LET F[i \in 0..Len(entries)] ==
        IF i = 0 THEN <<>>
        ELSE LET sorted == F[i - 1]
             IN  InsertAfterLast(sorted, entries[i],
                   { j \in 1..Len(sorted) :
                       localeCompare(sorted[j].key, entries[i].key) <= 0 })
  IN  F[Len(entries)]

buildPivotFlat(rows) ==
  LET filtered == SelectSeq(rows, HasKey)
      statuses ==
        SelectSeq(sortStatuses([i \in 1..Len(filtered) |-> filtered[i].status]),
                  keepStatus)
      Step(acc, r) ==
        LET m0 == IF IndexOfKey(acc.ou0Map, r.ou0) = 0
                  THEN Append(acc.ou0Map,
                              [key |-> r.ou0, agg |-> newAggRecord(statuses)])
                  ELSE acc.ou0Map
            i  == IndexOfKey(m0, r.ou0)
        IN  [ grandAgg |-> addToAggRecord(acc.grandAgg, r.status),
              ou0Map   |-> [m0 EXCEPT ![i].agg = addToAggRecord(@, r.status)] ]
      F[i \in 0..Len(filtered)] ==
        IF i = 0
        THEN [grandAgg |-> newAggRecord(statuses), ou0Map |-> <<>>]
        ELSE LET acc == F[i - 1] IN Step(acc, filtered[i])
      final == F[Len(filtered)]
  IN  [ statuses      |-> statuses,
        grandAgg      |-> final.grandAgg,
        ou0Aggs       |-> sortByKey(final.ou0Map),
        filteredCount |-> Len(filtered),
        totalCount    |-> Len(rows) ]

----------------------------------------------------------------------------
(* Three-level aggregator of the main thread                               *)

newNode(key, statuses) ==
  [ key |-> key, children |-> <<>>, agg |-> newAggRecord(statuses) ]

\* Variant of getOrInsert that replaces the children by the new node.
getOrInsert_Replace(children, key, statuses) ==
  IF IndexOfKey(children, key) = 0
  THEN <<newNode(key, statuses)>>
  ELSE children

\* if (!children.has(key)) children.set(key, {...})
getOrInsert(children, key, statuses) ==
  IF IndexOfKey(children, key) = 0
  THEN Append(children, newNode(key, statuses))
  ELSE children

buildPivot(rows) ==
  LET filtered == SelectSeq(rows, HasKey)
      statuses ==
        SelectSeq(sortStatuses([i \in 1..Len(filtered) |-> filtered[i].status]),
                  LAMBDA s : /\ normalizeHeader(s) # normalizeHeader(Draft)
                             /\ normalizeHeader(s) # normalizeHeader(Submitted))
      Visit2(children, r) ==
        LET c == getOrInsert(children, r.ou2, statuses)
            i == IndexOfKey(c, r.ou2)
        IN  [c EXCEPT ![i].agg = addToAggRecord(@, r.status)]
      Visit1(children, r) ==
        LET c == getOrInsert(children, r.ou1, statuses)
            i == IndexOfKey(c, r.ou1)
        IN  [c EXCEPT ![i].agg = addToAggRecord(@, r.status),
                      ![i].children = Visit2(@, r)]
      Visit0(children, r) ==
        LET c == getOrInsert(children, r.ou0, statuses)
            i == IndexOfKey(c, r.ou0)
        IN  [c EXCEPT ![i].agg = addToAggRecord(@, r.status),
                      ![i].children = Visit1(@, r)]
      F[i \in 0..Len(filtered)] ==
        IF i = 0
        THEN [children |-> <<>>, agg |-> newAggRecord(statuses)]
        ELSE LET acc == F[i - 1]
             IN  [children |-> Visit0(acc.children, filtered[i]),
                  agg      |-> addToAggRecord(acc.agg, filtered[i].status)]
  IN  [ root |-> F[Len(filtered)], statuses |-> statuses ]

----------------------------------------------------------------------------
(* Baseline target calculator                                              *)

RECURSIVE PowerOfTwoBelow(_)
PowerOfTwoBelow(n) == IF n < 2 THEN 1 ELSE 2 * PowerOfTwoBelow(n \div 2)

\* Math.ceil(n * 1.1) in IEEE-754 double arithmetic.  The double nearest to
\* 1.1 is 1.1 + 0.4 * 2^-52, so the exact product is 11n/10 + 0.4n * 2^-52.
\* When 11n/10 is not an integer the excess is far too small to reach the
\* next integer and the result is the ceiling of 11n/10.  When n = 10k the
\* product 11k + 4k * 2^-52 rounds to a double above 11k exactly when the
\* excess is more than half the spacing 2^(e-52) of doubles at 11k (where
\* 2^e <= 11k < 2^(e+1); a tie rounds to the even mantissa, 11k), that is
\* when 8k > 2^e, and Math.ceil then gives 11k + 1.
ceilTimesGrowth(n) ==
  IF n % 10 # 0 THEN (11 * n) \div 10 + 1
  ELSE LET k == n \div 10
       IN  IF k > 0 /\ 8 * k > PowerOfTwoBelow(11 * k) THEN 11 * k + 1 ELSE 11 * k

\* computeTarget(total) of the main thread
computeTarget(total) == ceilTimesGrowth(total)

computePrevYearTargets(prevRows) ==
  LET counted == SelectSeq(prevRows, HasKey)
      keys    == { counted[i].ou0 : i \in 1..Len(counted) }
      count(k) == Cardinality({ i \in 1..Len(counted) : counted[i].ou0 = k })
  IN  [ perOU0Targets |-> [k \in keys |-> ceilTimesGrowth(count(k))],
        grandTarget   |-> ceilTimesGrowth(Len(counted)),
        grandCount    |-> Len(counted) ]

----------------------------------------------------------------------------
(* Inputs of the pure functions                                            *)

\* Raw status cells: listed statuses in several spellings, unlisted ones,
\* cells with surrounding white space and a blank cell.
StatusCells ==
  { <<"D","r","a","f","t">>,
    <<" ","d","r","a","f","t">>,
    <<"A","p","p","r","o","v","e","d">>,
    <<"Z","e","t","a">>,
    <<"Z","e","t","a"," ">>,
    <<"a","l","p","h","a">>,
    <<"I","N"," ","\t","r","e","v","i","e","w">>,
    <<>> }

SeqsUpTo(S, n) == UNION { [1..m -> S] : m \in 0..n }

StatusInputs == SeqsUpTo(StatusCells, MaxStatuses)

Approved == <<"A","p","p","r","o","v","e","d">>
Zeta == <<"Z","e","t","a">>

RawRow(o0, o1, o2, k, st) ==
  [ou0 |-> o0, ou1 |-> o1, ou2 |-> o2, applicationKey |-> k, status |-> st]

\* Raw rows: two named top-level groups, blank levels, rows without a key
\* (empty or white space only), listed, unlisted, Draft and blank statuses.
RawRows ==
  { RawRow(<<"a">>, <<"X">>, <<"P">>, <<"k">>, Approved),
    RawRow(<<"a">>, <<"X">>, <<"Q">>, <<"k">>, Draft),
    RawRow(<<"a">>, <<"Y">>, <<"P">>, <<"k">>, Zeta),
    RawRow(<<"B">>, <<"X">>, <<"P">>, <<"k">>, Approved),
    RawRow(<<"B">>, <<"X">>, <<"P">>, <<"k">>, Submitted),
    RawRow(<<" ">>, <<>>, <<" ">>, <<"k">>, Approved),
    RawRow(<<>>, <<>>, <<>>, <<"k">>, <<" ","d","r","a","f","t">>),
    RawRow(<<>>, <<"X">>, <<>>, <<"k">>, <<>>),
    RawRow(<<"a">>, <<"X">>, <<"P">>, <<>>, Approved),
    RawRow(<<"B">>, <<"Y">>, <<"Q">>, <<" ">>, Zeta) }

RowInputs == SeqsUpTo(RawRows, MaxRows)

----------------------------------------------------------------------------
(* State                                                                   *)

VARIABLES
  statusInput,     \* raw status cells handed to the ranker
  statusOutput,    \* <<>> or <<the sequence sortStatuses returned>>
  sheetRows,       \* raw rows handed to the aggregators
  pivotFlat,       \* <<>> or <<result of buildPivotFlat>>
  pivotTree,       \* <<>> or <<result of buildPivot>>
  prevTargetsOf,   \* <<>> or <<result of computePrevYearTargets>>
  currentFile,     \* main.js currentFile: a file, or NoFile for null
  prevYearFile,    \* main.js prevYearFile
  activeProcessId, \* main.js activeProcessId
  prevTargets,     \* main.js prevTargets: perOU0, grand, available
  tableWrap,       \* content of the #tableWrap element
  exportEnabled,   \* the export button is not disabled
  status,          \* the #status element: kind and text
  requests,        \* per issued request id: the files it read and where
                   \* its invocation of processIfReady stands
  inbox,           \* messages posted to the worker, not yet handled
  outbox,          \* messages posted by the worker, not yet delivered
  pivotWorker,     \* main.js pivotWorker: the worker created at start-up,
                   \* as the result its script computes for each pair of
                   \* buffers
  exports,         \* invocations of exportCurrentView in flight, per stage
  lastSettled      \* id of the request whose invocation ended last, 0
                   \* before any has ended (history)

statusVars == <<statusInput, statusOutput>>
pivotVars == <<sheetRows, pivotFlat, pivotTree, prevTargetsOf>>
fileVars == <<currentFile, prevYearFile>>
viewVars == <<prevTargets, tableWrap, exportEnabled, status>>
workerVars == <<inbox, outbox>>
coordVars ==
  <<fileVars, activeProcessId, viewVars, requests, workerVars, pivotWorker,
    exports, lastSettled>>

vars == <<statusVars, pivotVars, coordVars>>

StatusIdle == statusInput = <<>> /\ statusOutput = <<>>
PivotIdle ==
  sheetRows = <<>> /\ pivotFlat = <<>> /\ pivotTree = <<>> /\ prevTargetsOf = <<>>

----------------------------------------------------------------------------
(* Files and the worker                                                    *)

NoFile == 0

\* The files the user can pick.  A file stands for its content: whether
\* XLSX.read accepts it, whether it has the Dashboard sheet, whether the
\* header row resolves every required column, and the raw rows.  Files 1
\* and 2 are well-formed and differ in their groups and counts; file 3 has
\* no Dashboard sheet.
FileData(f) ==
  CASE f = 1 ->
         [ parses |-> TRUE, hasDashboard |-> TRUE, columnsMissing |-> FALSE,
           rows |-> << RawRow(<<"a">>, <<"X">>, <<"P">>, <<"k">>, Approved),
                       RawRow(<<"B">>, <<"X">>, <<"P">>, <<"k">>, Approved),
                       RawRow(<<"a">>, <<"X">>, <<"P">>, <<>>, Approved) >> ]
    [] f = 2 ->
         [ parses |-> TRUE, hasDashboard |-> TRUE, columnsMissing |-> FALSE,
           rows |-> << RawRow(<<"a">>, <<"X">>, <<"Q">>, <<"k">>, Draft),
                       RawRow(<<"a">>, <<"Y">>, <<"P">>, <<"k">>, Zeta),
                       RawRow(<<" ">>, <<>>, <<" ">>, <<"k">>, Approved) >> ]
    [] OTHER ->
         [ parses |-> TRUE, hasDashboard |-> FALSE, columnsMissing |-> FALSE,
           rows |-> <<>> ]

\* What the user picks for the current year and for the previous year.
CurrentFileChoices == {1, 3}
PrevFileChoices == {1, 2}

\* readRowsFromSheet: no rows gives [] before the header is looked at; a
\* required column that does not resolve throws.
readRowsFromSheet(sheet) ==
  IF sheet.rows = <<>> THEN [ok |-> TRUE, rows |-> <<>>]
  ELSE IF sheet.columnsMissing THEN [ok |-> FALSE, rows |-> <<>>]
  ELSE [ok |-> TRUE, rows |-> readRows(sheet.rows)]

Failure(text) == [ok |-> FALSE, error |-> text]

\* The body of self.onmessage: what the worker computes from the two
\* buffers of a message (the reply without its id).
workerResult(currentBuf, prevBuf) ==
  LET cur == FileData(currentBuf)
      prv == FileData(prevBuf)
  IN  IF ~cur.parses \/ ~prv.parses
        THEN Failure("Workbook cannot be read")
      ELSE IF ~cur.hasDashboard \/ ~prv.hasDashboard
        THEN Failure("Sheet not found")
      ELSE IF ~readRowsFromSheet(cur).ok \/ ~readRowsFromSheet(prv).ok
        THEN Failure("Missing required columns")
      ELSE [ ok    |-> TRUE,
             pivot |-> buildPivotFlat(readRowsFromSheet(cur).rows),
             prev  |-> computePrevYearTargets(readRowsFromSheet(prv).rows) ]

\* The worker is a pure function of the buffers: its results for the files
\* the user can pick.
WorkerResults ==
  [currentBuf \in CurrentFileChoices |->
     [prevBuf \in PrevFileChoices |-> workerResult(currentBuf, prevBuf)]]

\* self.onmessage of the worker: the reply it posts for one message.
onmessage(msg) ==
  [id |-> msg.id] @@ pivotWorker[msg.currentBuf][msg.prevBuf]

----------------------------------------------------------------------------
(* Display                                                                 *)

Info(text) == [kind |-> "info", text |-> text]
Failed(text) == [kind |-> "error", text |-> text]

\* The texts an error of processIfReady can show (not those of the export).
ProcessingErrors ==
  { "Workbook cannot be read", "Sheet not found", "Missing required columns",
    "File cannot be read", "Worker error" }

NoTable == [kind |-> "none"]

\* resetPrevTargets
UnavailableTargets == [perOU0 |-> <<>>, grand |-> <<>>, available |-> FALSE]

GrandTotalLabel == <<"G","r","a","n","d"," ","T","o","t","a","l">>

\* getCount of renderPivotFlat: Number(agg?.byStatus?.[status] ?? 0)
getCount(agg, st) == IF st \in DOMAIN agg.byStatus THEN agg.byStatus[st] ELSE 0

\* Variant of appendRow whose fallback is the grand target of the prior
\* period when there is one.
appendRow_GrandFallback(label, agg, rowKind, statuses, pt) ==
  LET current == agg.total
      target  ==
        IF pt.available /\ rowKind = "grand" /\ pt.grand # <<>>
          THEN pt.grand[1]
        ELSE IF pt.available /\ rowKind = "group0" /\ label \in DOMAIN pt.perOU0
          THEN pt.perOU0[label]
        ELSE IF pt.available /\ pt.grand # <<>>
          THEN pt.grand[1]
        ELSE computeTarget(current)
  IN  [ label  |-> label,
        kind   |-> rowKind,
        counts |-> [i \in 1..Len(statuses) |-> getCount(agg, statuses[i])],
        total  |-> current,
        target |-> target ]

\* appendRow of renderPivotFlat: the cells of one row.
appendRow(label, agg, rowKind, statuses, pt) ==
  LET current == agg.total
      target  ==
        IF pt.available /\ rowKind = "grand" /\ pt.grand # <<>>
          THEN pt.grand[1]
        ELSE IF pt.available /\ rowKind = "group0" /\ label \in DOMAIN pt.perOU0
          THEN pt.perOU0[label]
        ELSE computeTarget(current)
  IN  [ label  |-> label,
        kind   |-> rowKind,
        counts |-> [i \in 1..Len(statuses) |-> getCount(agg, statuses[i])],
        total  |-> current,
        target |-> target ]

\* renderPivotFlat: the new content of #tableWrap; the export button is
\* enabled exactly when a table was drawn.
renderPivotFlat(pivot, pt) ==
  IF Len(pivot.ou0Aggs) = 0
  THEN [kind |-> "empty"]
  ELSE [ kind     |-> "table",
         statuses |-> pivot.statuses,
         rows     |-> [i \in 1..(Len(pivot.ou0Aggs) + 1) |->
                        IF i <= Len(pivot.ou0Aggs)
                        THEN appendRow(pivot.ou0Aggs[i].key, pivot.ou0Aggs[i].agg,
                                       "group0", pivot.statuses, pt)
                        ELSE appendRow(GrandTotalLabel, pivot.grandAgg,
                                       "grand", pivot.statuses, pt)] ]

\* Variant of TargetsFrom that takes the grand target only.
TargetsFrom_GrandOnly(prev) ==
  [perOU0 |-> <<>>, grand |-> <<prev.grandTarget>>, available |-> TRUE]

\* prevTargets as processIfReady sets it from a successful reply.
TargetsFrom(prev) ==
  [perOU0 |-> prev.perOU0Targets, grand |-> <<prev.grandTarget>>, available |-> TRUE]

Rendered(pivot, prev) ==
  [ kind |-> "success", text |-> "Rendered current year",
    totalCount |-> pivot.totalCount,
    grandCount |-> prev.grandCount, grandTarget |-> prev.grandTarget ]

----------------------------------------------------------------------------
(* Coordinator                                                             *)

CoordInit ==
  /\ currentFile = NoFile
  /\ prevYearFile = NoFile
  /\ activeProcessId = 0
  /\ prevTargets = UnavailableTargets
  /\ tableWrap = NoTable
  /\ exportEnabled = FALSE
  /\ status = Info("Upload both files")
  /\ requests = <<>>
  /\ inbox = <<>>
  /\ outbox = <<>>
  /\ pivotWorker = WorkerResults
  /\ exports = [preparing |-> 0, encoding |-> 0]
  /\ lastSettled = 0

\* An invocation past its postMessage holds no buffers any more: they were
\* transferred to the worker.
Ended(pc) == [pc |-> pc, currentFile |-> NoFile, prevFile |-> NoFile]

\* The invocation of request id ends in state pc.
Settle(id, pc) ==
  /\ requests' = [requests EXCEPT ![id] = Ended(pc)]
  /\ lastSettled' = id

\* Variant of processIfReady that issues a request without resetPrevTargets.
processIfReady_NoReset(cur, prv) ==
  /\ tableWrap' = NoTable
  /\ exportEnabled' = FALSE
  /\ IF cur = NoFile \/ prv = NoFile
     THEN /\ status' = Info("Upload both files to generate the pivot")
          /\ UNCHANGED <<prevTargets, activeProcessId, requests>>
     ELSE /\ activeProcessId < MaxRequests
          /\ status' = Info("Processing files")
          /\ UNCHANGED prevTargets
          /\ activeProcessId' = activeProcessId + 1
          /\ requests' = Append(requests,
                                [pc |-> "reading", currentFile |-> cur, prevFile |-> prv])
  /\ UNCHANGED <<workerVars, pivotWorker, exports, lastSettled>>

\* processIfReady up to its first await, with the files as just set.
processIfReady(cur, prv) ==
  /\ tableWrap' = NoTable
  /\ exportEnabled' = FALSE
  /\ IF cur = NoFile \/ prv = NoFile
     THEN /\ status' = Info("Upload both files to generate the pivot")
          /\ UNCHANGED <<prevTargets, activeProcessId, requests>>
     ELSE /\ activeProcessId < MaxRequests
          /\ status' = Info("Processing files")
          /\ prevTargets' = UnavailableTargets
          /\ activeProcessId' = activeProcessId + 1
          /\ requests' = Append(requests,
                                [pc |-> "reading", currentFile |-> cur, prevFile |-> prv])
  /\ UNCHANGED <<workerVars, pivotWorker, exports, lastSettled>>

\* change event of #fileInput: onFileSelected(file)
OnFileSelected(file) ==
  /\ currentFile' = file
  /\ UNCHANGED prevYearFile
  /\ processIfReady(file, prevYearFile)

\* change event of #prevFileInput: onPrevFileSelected(file)
OnPrevFileSelected(file) ==
  /\ prevYearFile' = file
  /\ UNCHANGED currentFile
  /\ processIfReady(currentFile, file)

\* Variant of ShowError that leaves the output in place.
ShowError_NoClear(text) ==
  /\ status' = Failed(text)
  /\ UNCHANGED <<tableWrap, exportEnabled>>

\* The catch clause of the change handlers.
ShowError(text) ==
  /\ tableWrap' = NoTable
  /\ exportEnabled' = FALSE
  /\ status' = Failed(text)

\* Both arrayBuffer() reads of request id are fulfilled: the invocation
\* registers its listeners and posts the buffers to the worker.
ReadsFulfilled(id) ==
  /\ requests[id].pc = "reading"
  /\ requests' = [requests EXCEPT ![id] = Ended("waiting")]
  /\ inbox' = Append(inbox, [id |-> id, currentBuf |-> requests[id].currentFile,
                                        prevBuf |-> requests[id].prevFile])
  /\ UNCHANGED <<pivotWorker, fileVars, activeProcessId, viewVars, outbox,
                 exports, lastSettled>>

\* One of the arrayBuffer() reads of request id is rejected: Promise.all
\* rejects, processIfReady throws and the change handler catches.
ReadsRejected(id) ==
  /\ requests[id].pc = "reading"
  /\ Settle(id, "failed")
  /\ ShowError("File cannot be read")
  /\ UNCHANGED <<pivotWorker, fileVars, activeProcessId, prevTargets, workerVars, exports>>

\* Variant of WorkerHandlesMessage that posts no reply.
WorkerHandlesMessage_NoReply ==
  /\ inbox # <<>>
  /\ inbox' = Tail(inbox)
  /\ UNCHANGED <<pivotWorker, fileVars, activeProcessId, viewVars, requests, outbox,
                 exports, lastSettled>>

\* The worker handles its next message and posts the reply.
WorkerHandlesMessage ==
  /\ inbox # <<>>
  /\ inbox' = Tail(inbox)
  /\ outbox' = Append(outbox, onmessage(Head(inbox)))
  /\ UNCHANGED <<pivotWorker, fileVars, activeProcessId, viewVars, requests,
                 exports, lastSettled>>

\* Variant of MessageDelivered without the check of myId against
\* activeProcessId.
MessageDelivered_NoStaleCheck ==
  /\ outbox # <<>>
  /\ outbox' = Tail(outbox)
  /\ LET data == Head(outbox)
         myId == data.id
     IN  IF requests[myId].pc # "waiting"
         THEN UNCHANGED <<viewVars, requests, lastSettled>>
         ELSE IF ~data.ok
         THEN /\ Settle(myId, "failed")
              /\ ShowError(data.error)
              /\ UNCHANGED prevTargets
         ELSE /\ Settle(myId, "rendered")
              /\ prevTargets' = TargetsFrom(data.prev)
              /\ tableWrap' = renderPivotFlat(data.pivot, TargetsFrom(data.prev))
              /\ exportEnabled' = (Len(data.pivot.ou0Aggs) # 0)
              /\ status' = Rendered(data.pivot, data.prev)
  /\ UNCHANGED <<pivotWorker, fileVars, activeProcessId, inbox, exports>>

\* A message event of the worker is dispatched on the main thread.  Only
\* the onMessage listener of the request with the reply's id resolves; the
\* rest of that invocation of processIfReady runs before any other event.
MessageDelivered ==
  /\ outbox # <<>>
  /\ outbox' = Tail(outbox)
  /\ LET data == Head(outbox)
         myId == data.id
     IN  IF requests[myId].pc # "waiting"
         THEN UNCHANGED <<viewVars, requests, lastSettled>>
         ELSE IF myId # activeProcessId
         THEN /\ Settle(myId, "discarded")
              /\ UNCHANGED viewVars
         ELSE IF ~data.ok
         THEN /\ Settle(myId, "failed")
              /\ ShowError(data.error)
              /\ UNCHANGED prevTargets
         ELSE /\ Settle(myId, "rendered")
              /\ prevTargets' = TargetsFrom(data.prev)
              /\ tableWrap' = renderPivotFlat(data.pivot, TargetsFrom(data.prev))
              /\ exportEnabled' = (Len(data.pivot.ou0Aggs) # 0)
              /\ status' = Rendered(data.pivot, data.prev)
  /\ UNCHANGED <<pivotWorker, fileVars, activeProcessId, inbox, exports>>

\* An error event of the worker: the onError listener of every invocation
\* that is waiting for its reply rejects, and each of them ends in the catch
\* clause of its change handler.
WorkerErrorEvent ==
  /\ \E id \in DOMAIN requests : requests[id].pc = "waiting"
  /\ LET waiting == { id \in DOMAIN requests : requests[id].pc = "waiting" }
     IN  /\ requests' = [id \in DOMAIN requests |->
                           IF id \in waiting THEN Ended("failed")
                           ELSE requests[id]]
         /\ lastSettled' = CHOOSE id \in waiting : \A other \in waiting : other <= id
  /\ ShowError("Worker error")
  /\ UNCHANGED <<pivotWorker, fileVars, activeProcessId, prevTargets, inbox, outbox, exports>>

----------------------------------------------------------------------------
(* Export                                                                  *)

\* click on the export button: exportCurrentView up to its first await.
ExportClicked ==
  /\ exportEnabled
  /\ exports.preparing + exports.encoding < MaxExports
  /\ IF tableWrap.kind # "table"
     THEN /\ status' = Info("Nothing to export yet")
          /\ UNCHANGED exports
     ELSE /\ exports' = [exports EXCEPT !.preparing = @ + 1]
          /\ UNCHANGED status
  /\ UNCHANGED <<pivotWorker, fileVars, activeProcessId, prevTargets, tableWrap, exportEnabled,
                 requests, workerVars, lastSettled>>

\* Fonts and animation frames are awaited: the encoding starts.
ExportStarts ==
  /\ exports.preparing > 0
  /\ exports' = [preparing |-> exports.preparing - 1, encoding |-> exports.encoding + 1]
  /\ status' = Info("Exporting image")
  /\ UNCHANGED <<pivotWorker, fileVars, activeProcessId, prevTargets, tableWrap, exportEnabled,
                 requests, workerVars, lastSettled>>

\* toPng / toJpeg is fulfilled.
ExportCompletes ==
  /\ exports.encoding > 0
  /\ exports' = [exports EXCEPT !.encoding = @ - 1]
  /\ status' = [kind |-> "success", text |-> "Export complete"]
  /\ UNCHANGED <<pivotWorker, fileVars, activeProcessId, prevTargets, tableWrap, exportEnabled,
                 requests, workerVars, lastSettled>>

\* toPng / toJpeg is rejected: the click handler catches.
ExportFails ==
  /\ exports.encoding > 0
  /\ exports' = [exports EXCEPT !.encoding = @ - 1]
  /\ status' = Failed("Export failed")
  /\ UNCHANGED <<pivotWorker, fileVars, activeProcessId, prevTargets, tableWrap, exportEnabled,
                 requests, workerVars, lastSettled>>

----------------------------------------------------------------------------
(* The application                                                         *)

Init == CoordInit /\ StatusIdle /\ PivotIdle

\* The steps of the requests: the change events of the two file inputs,
\* the settling of the reads, the worker and its events.
NextRequest ==
  \/ \E file \in CurrentFileChoices \cup {NoFile} :
       OnFileSelected(file) /\ UNCHANGED <<statusVars, pivotVars>>
  \/ \E file \in PrevFileChoices \cup {NoFile} :
       OnPrevFileSelected(file) /\ UNCHANGED <<statusVars, pivotVars>>
  \/ \E id \in DOMAIN requests :
       ReadsFulfilled(id) /\ UNCHANGED <<statusVars, pivotVars>>
  \/ \E id \in DOMAIN requests :
       ReadsRejected(id) /\ UNCHANGED <<statusVars, pivotVars>>
  \/ WorkerHandlesMessage /\ UNCHANGED <<statusVars, pivotVars>>
  \/ MessageDelivered /\ UNCHANGED <<statusVars, pivotVars>>
  \/ WorkerErrorEvent /\ UNCHANGED <<statusVars, pivotVars>>

\* The steps of the export.
NextExport ==
  \/ ExportClicked /\ UNCHANGED <<statusVars, pivotVars>>
  \/ ExportStarts /\ UNCHANGED <<statusVars, pivotVars>>
  \/ ExportCompletes /\ UNCHANGED <<statusVars, pivotVars>>
  \/ ExportFails /\ UNCHANGED <<statusVars, pivotVars>>

Next == NextRequest \/ NextExport

Spec == Init /\ [][Next]_vars

\* Scheduling: an arrayBuffer() read that was started settles; the worker
\* handles the messages in its queue; the event loop of the main thread
\* dispatches the message events posted to it.
ReadsSettle(id) ==
  /\ id \in DOMAIN requests
  /\ ReadsFulfilled(id) \/ ReadsRejected(id)
  /\ UNCHANGED <<statusVars, pivotVars>>

WorkerRuns == WorkerHandlesMessage /\ UNCHANGED <<statusVars, pivotVars>>

EventLoopRuns == MessageDelivered /\ UNCHANGED <<statusVars, pivotVars>>

Fairness ==
  /\ \A id \in 1..MaxRequests : WF_vars(ReadsSettle(id))
  /\ WF_vars(WorkerRuns)
  /\ WF_vars(EventLoopRuns)

\* The requests alone, under that scheduling: the export takes no part in
\* how a request ends.
SpecLive == Init /\ [][NextRequest]_vars /\ Fairness

----------------------------------------------------------------------------
(* The status ranker applied to the statuses of a row collection           *)

NormalizedStatuses(cells) == [i \in 1..Len(cells) |-> normalizeCell(cells[i])]

InitStatus ==
  /\ statusInput \in StatusInputs
  /\ statusOutput = <<>>
  /\ PivotIdle
  /\ CoordInit

RankStatuses ==
  /\ statusOutput = <<>>
  /\ statusOutput' = <<sortStatuses(NormalizedStatuses(statusInput))>>
  /\ UNCHANGED <<statusInput, pivotVars, coordVars>>

NextStatus == RankStatuses

SpecStatus == InitStatus /\ [][NextStatus]_vars

----------------------------------------------------------------------------
(* The aggregators and the target calculator applied to a row collection   *)

InitPivot ==
  /\ sheetRows \in RowInputs
  /\ pivotFlat = <<>>
  /\ pivotTree = <<>>
  /\ prevTargetsOf = <<>>
  /\ StatusIdle
  /\ CoordInit

BuildPivotFlat ==
  /\ pivotFlat = <<>>
  /\ pivotFlat' = <<buildPivotFlat(readRows(sheetRows))>>
  /\ UNCHANGED <<sheetRows, pivotTree, prevTargetsOf, statusVars, coordVars>>

BuildPivot ==
  /\ pivotTree = <<>>
  /\ pivotTree' = <<buildPivot(readRows(sheetRows))>>
  /\ UNCHANGED <<sheetRows, pivotFlat, prevTargetsOf, statusVars, coordVars>>

ComputePrevYearTargets ==
  /\ prevTargetsOf = <<>>
  /\ prevTargetsOf' = <<computePrevYearTargets(readRows(sheetRows))>>
  /\ UNCHANGED <<sheetRows, pivotFlat, pivotTree, statusVars, coordVars>>

NextPivot == BuildPivotFlat \/ BuildPivot \/ ComputePrevYearTargets

SpecPivot == InitPivot /\ [][NextPivot]_vars

----------------------------------------------------------------------------
(* Properties of the aggregators                                           *)

RECURSIVE SumCounts(_)
SumCounts(f) ==
  IF DOMAIN f = {} THEN 0
  ELSE LET k == CHOOSE k \in DOMAIN f : TRUE
       IN  f[k] + SumCounts([j \in (DOMAIN f) \ {k} |-> f[j]])

RECURSIVE SumSeq(_)
SumSeq(xs) == IF xs = <<>> THEN 0 ELSE Head(xs) + SumSeq(Tail(xs))

Level0(t) == Range(t.root.children)
Level1(t) == UNION { Range(n.children) : n \in Level0(t) }
Level2(t) == UNION { Range(n.children) : n \in Level1(t) }

TreeAggs(t) ==
  {t.root.agg} \cup { n.agg : n \in Level0(t) \cup Level1(t) \cup Level2(t) }

FlatAggs(p) == {p.grandAgg} \cup { p.ou0Aggs[i].agg : i \in 1..Len(p.ou0Aggs) }

CountOf(agg, s) == IF s \in DOMAIN agg.byStatus THEN agg.byStatus[s] ELSE 0

\* The children's totals and per-status counts add up to the parent's.
ChildrenAddUp(parentAgg, children) ==
  LET seen == (DOMAIN parentAgg.byStatus)
                \cup UNION { DOMAIN children[i].agg.byStatus : i \in 1..Len(children) }
  IN  /\ SumSeq([i \in 1..Len(children) |-> children[i].agg.total]) = parentAgg.total
      /\ \A s \in seen :
           SumSeq([i \in 1..Len(children) |-> CountOf(children[i].agg, s)])
             = CountOf(parentAgg, s)

C6_ChildrenSumToParent ==
  /\ pivotFlat # <<>> =>
       ChildrenAddUp(pivotFlat[1].grandAgg, pivotFlat[1].ou0Aggs)
  /\ pivotTree # <<>> =>
       /\ ChildrenAddUp(pivotTree[1].root.agg, pivotTree[1].root.children)
       /\ \A n \in Level0(pivotTree[1]) \cup Level1(pivotTree[1]) :
            ChildrenAddUp(n.agg, n.children)

\* A tree with two top-level groups, one of them with two children, and the
\* flat pivot of the same rows.
C6_Witness ==
  /\ pivotFlat # <<>> /\ pivotTree # <<>>
  /\ Len(pivotFlat[1].ou0Aggs) >= 2
  /\ Len(pivotTree[1].root.children) >= 2
  /\ \E n \in Level0(pivotTree[1]) : Len(n.children) >= 2

KeyedRows == { i \in 1..Len(sheetRows) : Trim(sheetRows[i].applicationKey) # <<>> }

KeyedRowsOf(group) == { i \in KeyedRows : normalizeCell(sheetRows[i].ou0) = group }

\* C7: rows with an empty application key are excluded from every count:
\* the grand total is the number K of rows with a non-empty key, and every
\* group exists because of, and counts exactly, the keyed rows of its key.
C7_EmptyKeyRowsExcluded ==
  /\ pivotFlat # <<>> =>
       /\ pivotFlat[1].grandAgg.total = Cardinality(KeyedRows)
       /\ \A i \in 1..Len(pivotFlat[1].ou0Aggs) :
            LET g == pivotFlat[1].ou0Aggs[i]
            IN  KeyedRowsOf(g.key) # {} /\ g.agg.total = Cardinality(KeyedRowsOf(g.key))
  /\ pivotTree # <<>> =>
       /\ pivotTree[1].root.agg.total = Cardinality(KeyedRows)
       /\ \A n \in Level0(pivotTree[1]) :
            KeyedRowsOf(n.key) # {} /\ n.agg.total = Cardinality(KeyedRowsOf(n.key))

\* N = 3 rows of which K = 2 have a key; the row without a key is the only
\* row of its top-level group.
C7_Witness ==
  /\ pivotFlat # <<>> /\ pivotTree # <<>>
  /\ Len(sheetRows) = 3
  /\ Cardinality(KeyedRows) = 2
  /\ \E i \in (1..Len(sheetRows)) \ KeyedRows :
       KeyedRowsOf(normalizeCell(sheetRows[i].ou0)) = {}

----------------------------------------------------------------------------
(* Properties of the status ranker                                         *)

StatusSet(cells) == Range(NormalizedStatuses(cells))

\* The sequences of statuses within the bound that have the same set of
\* distinct statuses as the sequence xs.
SameStatusSet(xs) ==
  { q \in SeqsUpTo(Range(xs), MaxStatuses) : Range(q) = Range(xs) }

\* C8: the status order depends only on the set of distinct normalized
\* statuses present: every sequence with the same set of statuses (any
\* permutation, any repetition) is ranked to the same sequence.
C8_OrderDependsOnStatusSetOnly ==
  statusOutput # <<>> =>
    \A q \in SameStatusSet(NormalizedStatuses(statusInput)) :
      sortStatuses(q) = statusOutput[1]

\* Three distinct statuses were ranked and the ranker had to reorder them.
C8_Witness ==
  /\ statusOutput # <<>>
  /\ Cardinality(StatusSet(statusInput)) = 3
  /\ Len(statusInput) = 3
  /\ NormalizedStatuses(statusInput) # statusOutput[1]

IsListed(s) ==
  \E i \in 1..Len(STATUS_PRIORITY) :
    normalizeHeader(STATUS_PRIORITY[i]) = normalizeHeader(s)

ListPosition(s) ==
  CHOOSE i \in 1..Len(STATUS_PRIORITY) :
    normalizeHeader(STATUS_PRIORITY[i]) = normalizeHeader(s)

\* Alphabetical order, letters compared without regard to case.
AlphabetRank(c) ==
  IF \E i \in 1..26 : LowerCase[i] = c \/ UpperCase[i] = c
  THEN CHOOSE i \in 1..26 : LowerCase[i] = c \/ UpperCase[i] = c
  ELSE 0

Alphabetical(a, b) ==
  CompareWeights([i \in 1..Len(a) |-> AlphabetRank(a[i])],
                 [i \in 1..Len(b) |-> AlphabetRank(b[i])]) <= 0

\* C9: in the ranked sequence every listed status precedes every unlisted
\* one, listed statuses follow the priority list, unlisted statuses are
\* alphabetical; {Approved, Zeta, Draft} is ranked <<Draft, Approved, Zeta>>.
C9_ListedFirstThenAlphabetical ==
  statusOutput # <<>> =>
    LET out == statusOutput[1]
    IN  /\ \A i, j \in 1..Len(out) :
             i < j =>
               /\ IsListed(out[j]) => IsListed(out[i])
               /\ IsListed(out[i]) /\ IsListed(out[j]) =>
                    ListPosition(out[i]) <= ListPosition(out[j])
               /\ ~IsListed(out[i]) /\ ~IsListed(out[j]) =>
                    Alphabetical(out[i], out[j])
        /\ StatusSet(statusInput) = {Approved, Zeta, Draft} =>
             out = <<Draft, Approved, Zeta>>

\* The statuses Zeta, Approved, Draft were handed over in that order.
C9_Witness ==
  /\ statusOutput = << <<Draft, Approved, Zeta>> >>
  /\ statusInput = <<Zeta, Approved, Draft>>

\* C10: the ranked sequence never holds two entries with the same
\* case/whitespace-insensitive key, and the entry kept for a key is the
\* first literal form of that key in the input.
C10_DeduplicatedByKey ==
  statusOutput # <<>> =>
    LET out == statusOutput[1]
        inp == NormalizedStatuses(statusInput)
    IN  /\ \A i, j \in 1..Len(out) :
             i # j => normalizeHeader(out[i]) # normalizeHeader(out[j])
        /\ \A i \in 1..Len(out) :
             \E k \in 1..Len(inp) :
               /\ inp[k] = out[i]
               /\ \A m \in 1..(k - 1) :
                    normalizeHeader(inp[m]) # normalizeHeader(out[i])

----------------------------------------------------------------------------
(* Properties of the coordinator                                           *)

\* The reply at the head of the outbox resolves the promise of request id in
\* this step.
Resolves(id) ==
  /\ outbox # <<>>
  /\ Head(outbox).id = id
  /\ outbox' = Tail(outbox)
  /\ requests[id].pc = "waiting"
  /\ requests'[id].pc # "waiting"

\* The invocation of request id ends in this step, in whatever way.
Ends(id) ==
  /\ requests[id].pc \in {"reading", "waiting"}
  /\ requests'[id].pc \notin {"reading", "waiting"}

\* C1: when request A resolves after a newer request B was issued, the
\* visible state (table, export flag, status, target set) is left as it is:
\* A's result is never shown, and once B has resolved the visible state
\* stays B's result.
C1_StaleResolveLeavesView ==
  [][\A id \in DOMAIN requests :
       Resolves(id) /\ id < activeProcessId => UNCHANGED viewVars]_vars

\* Request A resolved last, after the newer request B had rendered its
\* table and targets, and B's table and targets are still shown.
C1_Witness ==
  \E a, b \in DOMAIN requests :
    /\ a < b /\ b = activeProcessId
    /\ requests[a].pc = "discarded"
    /\ requests[b].pc = "rendered"
    /\ lastSettled = a
    /\ tableWrap.kind = "table"
    /\ prevTargets.available
    /\ status.text = "Rendered current year"

\* C2: once a newer request has been issued, every outcome of an older
\* request (success reply, failure reply, rejected read, worker error
\* event) changes neither table, export flag, status nor target set.
C2_StaleOutcomeDiscarded ==
  [][( /\ \E id \in DOMAIN requests : Ends(id)
       /\ \A id \in DOMAIN requests : Ends(id) => id < activeProcessId )
     => UNCHANGED viewVars]_vars

ProcessingErrorShown == status.kind = "error" /\ status.text \in ProcessingErrors

\* C3: whenever a processing error message is displayed, no pivot table is
\* visible and export is disabled.
C3_ErrorShownOnClearedOutput ==
  ProcessingErrorShown => tableWrap = NoTable /\ ~exportEnabled

\* A first request rendered its table; the next one failed in the worker
\* and its message is displayed.
C3_Witness ==
  /\ ProcessingErrorShown
  /\ status.text = "Sheet not found"
  /\ \E a, b \in DOMAIN requests :
       /\ a < b /\ b = activeProcessId
       /\ requests[a].pc = "rendered"
       /\ requests[b].pc = "failed"

\* C4: every user action that clears or replaces the current or the prior
\* file leaves the target set unavailable.
C4_TargetsResetOnFileChange ==
  [][(currentFile' # currentFile \/ prevYearFile' # prevYearFile)
       => prevTargets' = UnavailableTargets]_vars

----------------------------------------------------------------------------
(* The target calculator applied to prior-period sheets of many rows       *)

\* A prior-period sheet of a + b rows with a key: a rows of group "a"
\* followed by b rows of group "B".
PriorRows(a, b) ==
  [i \in 1..(a + b) |->
     RawRow(IF i <= a THEN <<"a">> ELSE <<"B">>, <<"X">>, <<"P">>, <<"k">>, Approved)]

PriorSheets == { PriorRows(a, b) : a \in 0..MaxCount, b \in {0, 7} }

InitTarget ==
  /\ sheetRows \in PriorSheets
  /\ pivotFlat = <<>>
  /\ pivotTree = <<>>
  /\ prevTargetsOf = <<>>
  /\ StatusIdle
  /\ CoordInit

NextTarget == ComputePrevYearTargets

SpecTarget == InitTarget /\ [][NextTarget]_vars

\* The smallest integer not below 11n/10.
CeilOfElevenTenths(n) == (11 * n + 9) \div 10

\* C11: every derived target is the smallest integer not below 11n/10 of
\* its prior-period count n, for the grand count and for the count of every
\* top-level group of rows with a key (90 gives 99, 7 gives 8).
C11_TargetIsCeilOfGrowth ==
  prevTargetsOf # <<>> =>
    LET t == prevTargetsOf[1]
    IN  /\ t.grandCount = Cardinality(KeyedRows)
        /\ t.grandTarget = CeilOfElevenTenths(t.grandCount)
        /\ \A k \in DOMAIN t.perOU0Targets :
             t.perOU0Targets[k] = CeilOfElevenTenths(Cardinality(KeyedRowsOf(k)))

----------------------------------------------------------------------------
(* Properties of the rendered rows                                         *)

\* The reply at the head of the outbox is rendered in this step.
Renders(id) ==
  /\ Resolves(id)
  /\ requests'[id].pc = "rendered"

\* The rows drawn for the top-level groups, and the Grand Total row.
GroupRows(table) == { r \in Range(table.rows) : r.kind = "group0" }
GrandRow(table) == CHOOSE r \in Range(table.rows) : r.kind = "grand"

RenderedGroupLabels(pivot) ==
  LET table == renderPivotFlat(pivot, UnavailableTargets)
  IN  IF table.kind # "table" THEN <<>>
      ELSE [i \in 1..(Len(table.rows) - 1) |-> table.rows[i].label]

\* The keyed rows whose three levels are all blank.
AllBlankRows ==
  { i \in KeyedRows : /\ normalizeCell(sheetRows[i].ou0) = Blank
                      /\ normalizeCell(sheetRows[i].ou1) = Blank
                      /\ normalizeCell(sheetRows[i].ou2) = Blank }

\* C13: the top-level groups are listed in lexicographic order, except that
\* the group "(blank)" comes last, after every named group; the rows whose
\* three levels are all blank are counted in that one group.
C13_BlankGroupLast ==
  pivotFlat # <<>> =>
    LET labels == RenderedGroupLabels(pivotFlat[1])
    IN  /\ \A i, j \in 1..Len(labels) :
             i < j =>
               /\ labels[i] # Blank
               /\ labels[j] # Blank => localeCompare(labels[i], labels[j]) < 0
        /\ AllBlankRows # {} =>
             \E i \in 1..Len(pivotFlat[1].ou0Aggs) :
               /\ pivotFlat[1].ou0Aggs[i].key = Blank
               /\ pivotFlat[1].ou0Aggs[i].agg.total >= Cardinality(AllBlankRows)

----------------------------------------------------------------------------
(* The byStatus keys of the aggregate nodes                                *)

\* The statuses an aggregator leaves out of its status order.
IsDraft(s) == normalizeHeader(s) = normalizeHeader(Draft)
IsSubmitted(s) == normalizeHeader(s) = normalizeHeader(Submitted)

\* C14 as stated: in every aggregate node the key set of byStatus is exactly
\* the set of statuses of the status order returned with it.
C14_ByStatusKeysAreStatusOrder ==
  /\ pivotFlat # <<>> =>
       \A agg \in FlatAggs(pivotFlat[1]) :
         DOMAIN agg.byStatus = Range(pivotFlat[1].statuses)
  /\ pivotTree # <<>> =>
       \A agg \in TreeAggs(pivotTree[1]) :
         DOMAIN agg.byStatus = Range(pivotTree[1].statuses)

\* C14, amended: in every aggregate node every status of the status order
\* has a byStatus entry (zero if the node has no such row), and a byStatus
\* key that is absent from the status order is a status the aggregator
\* leaves out of the order (Draft; also Submitted in the three-level
\* aggregator) of which the node counts at least one row.
C14_ByStatusCoversStatusOrder ==
  /\ pivotFlat # <<>> =>
       \A agg \in FlatAggs(pivotFlat[1]) :
         /\ Range(pivotFlat[1].statuses) \subseteq DOMAIN agg.byStatus
         /\ \A s \in (DOMAIN agg.byStatus) \ Range(pivotFlat[1].statuses) :
              IsDraft(s) /\ agg.byStatus[s] >= 1
  /\ pivotTree # <<>> =>
       \A agg \in TreeAggs(pivotTree[1]) :
         /\ Range(pivotTree[1].statuses) \subseteq DOMAIN agg.byStatus
         /\ \A s \in (DOMAIN agg.byStatus) \ Range(pivotTree[1].statuses) :
              (IsDraft(s) \/ IsSubmitted(s)) /\ agg.byStatus[s] >= 1

\* Both aggregators have run; a group of the flat pivot has a zero entry for
\* a status of the order, and another has a Draft entry although Draft is
\* not in the order.
C14_Witness ==
  /\ pivotFlat # <<>> /\ pivotTree # <<>>
  /\ \E agg \in FlatAggs(pivotFlat[1]) :
       \E s \in Range(pivotFlat[1].statuses) : agg.byStatus[s] = 0
  /\ \E agg \in FlatAggs(pivotFlat[1]) :
       \E s \in DOMAIN agg.byStatus :
         IsDraft(s) /\ s \notin Range(pivotFlat[1].statuses)
  /\ \E agg \in TreeAggs(pivotTree[1]) :
       \E s \in DOMAIN agg.byStatus :
         IsSubmitted(s) /\ s \notin Range(pivotTree[1].statuses)

----------------------------------------------------------------------------
(* Draft rows                                                              *)

\* The keyed rows with status Draft, in whatever case and spacing: all of
\* them, and those of one top-level group.
DraftRows == { i \in KeyedRows : IsDraft(normalizeCell(sheetRows[i].status)) }
DraftRowsOf(group) == DraftRows \cap KeyedRowsOf(group)

\* C15: no status of the status order is Draft in any spelling; Draft rows
\* with a key count in the grand total and in the total of their group; and
\* in every row drawn, the Grand Total cell is the sum of the status cells
\* plus the number of Draft rows of that row's group (of all groups, for
\* the Grand Total row).
C15_DraftCountedNotDisplayed ==
  pivotFlat # <<>> =>
    LET pivot == pivotFlat[1]
        table == renderPivotFlat(pivot, UnavailableTargets)
    IN  /\ \A s \in Range(pivot.statuses) : ~IsDraft(s)
        /\ pivot.grandAgg.total = Cardinality(KeyedRows)
        /\ \A i \in 1..Len(pivot.ou0Aggs) :
             pivot.ou0Aggs[i].agg.total = Cardinality(KeyedRowsOf(pivot.ou0Aggs[i].key))
        /\ \A i \in DraftRows :
             \E j \in 1..Len(pivot.ou0Aggs) :
               pivot.ou0Aggs[j].key = normalizeCell(sheetRows[i].ou0)
        /\ table.kind = "table" =>
             /\ table.statuses = pivot.statuses
             /\ \A r \in GroupRows(table) :
                  r.total = SumSeq(r.counts) + Cardinality(DraftRowsOf(r.label))
             /\ GrandRow(table).total
                  = SumSeq(GrandRow(table).counts) + Cardinality(DraftRows)

\* The flat pivot of a sheet in which one group has a row "Draft" or
\* " draft" next to a row of a displayed status, and another group has no
\* Draft row.
C15_Witness ==
  /\ pivotFlat # <<>>
  /\ \E i \in DraftRows : sheetRows[i].status # Draft
  /\ \E j \in 1..Len(pivotFlat[1].ou0Aggs) :
       LET g == pivotFlat[1].ou0Aggs[j]
       IN  /\ DraftRowsOf(g.key) # {}
           /\ g.agg.total > Cardinality(DraftRowsOf(g.key))
  /\ \E j \in 1..Len(pivotFlat[1].ou0Aggs) :
       DraftRowsOf(pivotFlat[1].ou0Aggs[j].key) = {}

----------------------------------------------------------------------------
(* Requests in flight when a file is cleared                               *)

FileMissing == currentFile = NoFile \/ prevYearFile = NoFile

\* C16: while the current or the prior file is cleared, the reply to a
\* request that was in flight when the file was cleared is not rendered: no
\* pivot table becomes visible and no target set becomes available until
\* both files are selected again.
C16_ClearedFileDiscardsInFlight ==
  [][FileMissing' =>
       /\ tableWrap'.kind # "table"
       /\ prevTargets'.available => prevTargets.available]_vars

----------------------------------------------------------------------------
(* The target set while the latest request is pending or has failed        *)

\* Where the invocation of the latest issued request stands.
LatestIs(pcs) == activeProcessId > 0 /\ requests[activeProcessId].pc \in pcs

\* C17: from the moment a request is issued, while it is the latest issued
\* request and is pending (its files are being read or its reply is
\* awaited), and when it has failed, the target set is unavailable.
C17_TargetsUnavailableWhilePending ==
  LatestIs({"reading", "waiting", "failed"}) => prevTargets = UnavailableTargets

\* An earlier request rendered its table and targets; the latest request
\* was issued after that and failed: its error is shown and no target set
\* is available.
C17_Witness ==
  /\ LatestIs({"failed"})
  /\ \E a \in DOMAIN requests : a < activeProcessId /\ requests[a].pc = "rendered"
  /\ ProcessingErrorShown
  /\ ~prevTargets.available

----------------------------------------------------------------------------
(* The table and the target set come from one reply                        *)

\* The table and the target set that the reply delivers: the targets of its
\* prior-period part, and its pivot drawn with those targets.
DeliveredTargets(reply) ==
  [ perOU0    |-> reply.prev.perOU0Targets,
    grand     |-> <<reply.prev.grandTarget>>,
    available |-> TRUE ]

DeliveredTable(reply) == renderPivotFlat(reply.pivot, DeliveredTargets(reply))

\* C18: a step that leaves a pivot table visible leaves the target set
\* available, and either keeps both the table and the target set as they
\* were, or is the rendering of one reply, after which the target set holds
\* exactly the targets of that reply and the table is that reply's pivot
\* drawn with them.
C18_TableAndTargetsFromSameReply ==
  [][tableWrap'.kind = "table" =>
       /\ prevTargets'.available
       /\ \/ UNCHANGED <<tableWrap, prevTargets>>
          \/ \E id \in DOMAIN requests :
               /\ Renders(id)
               /\ prevTargets' = DeliveredTargets(Head(outbox))
               /\ tableWrap' = DeliveredTable(Head(outbox))]_vars

\* The table of the second request is visible with the targets of its prior
\* file, after the first request, issued with another prior file, was
\* rendered or discarded; the targets of the two prior files differ.
C18_Witness ==
  /\ tableWrap.kind = "table"
  /\ activeProcessId = 2
  /\ requests[2].pc = "rendered"
  /\ requests[1].pc \in {"rendered", "discarded"}
  /\ prevTargets = TargetsFrom(computePrevYearTargets(readRows(FileData(2).rows)))
  /\ prevTargets # TargetsFrom(computePrevYearTargets(readRows(FileData(1).rows)))
  /\ GrandRow(tableWrap).target = prevTargets.grand[1]

----------------------------------------------------------------------------
(* Liveness of the latest request                                          *)

\* Request id is the latest issued request and its invocation has not ended.
LatestPending(id) ==
  /\ activeProcessId = id
  /\ requests[id].pc \in {"reading", "waiting"}

\* Request id has ended with its result rendered or with an error shown, or
\* the user has acted and a newer request was issued.
LatestEndedOrSuperseded(id) ==
  \/ activeProcessId # id
  \/ requests[id].pc \in {"rendered", "failed"}

\* C19: when the reads settle and the worker handles its messages, the
\* latest issued request, as long as no newer request is issued, eventually
\* ends with its result rendered or an error shown, however many older
\* requests are in flight; the status does not stay "Processing files".
C19_LatestRequestEnds ==
  /\ \A id \in 1..MaxRequests : LatestPending(id) ~> LatestEndedOrSuperseded(id)
  /\ \A id \in 1..MaxRequests :
       (activeProcessId = id /\ status = Info("Processing files"))
         ~> (activeProcessId # id \/ status # Info("Processing files"))

\* The latest request has rendered its result while an older request is
\* still in flight.
C19_Witness ==
  /\ LatestIs({"rendered"})
  /\ status.text = "Rendered current year"
  /\ \E a \in DOMAIN requests :
       a < activeProcessId /\ requests[a].pc \in {"reading", "waiting"}

====
